---- MODULE Spec2Model ----
(***************************************************************************)
(* Multi Video Player (mvplayer): four control panels, each owning a       *)
(* player window bound to a vlc media player, one shared refresh timer.    *)
(* Every Qt slot (signal handler) runs to completion on the single UI      *)
(* thread, so each handler is one atomic action.  Handlers are written as  *)
(* functions from a world record to a world record so that a handler can   *)
(* call another one, as the code does.                                     *)
(***************************************************************************)
EXTENDS Integers, Sequences, FiniteSets

VARIABLES
    player,        \* PlayerWindow fields, per slot
    panel,         \* ControlPanel widgets, per slot
    vlc,           \* the slot's vlc instance and media player (engine side)
    window,        \* the Qt top-level window of the PlayerWindow, per slot
    _timer,        \* MainWindow._timer: TRUE while the QTimer is active
    screen_count,  \* QApplication.desktop().screenCount()
    calls,         \* the engine / window / timer calls of the last handler, in order
    last           \* the last event delivered by the event loop

vars == <<player, panel, vlc, window, _timer, screen_count, calls, last>>

----------------------------------------------------------------------------
(* Program constants and the bounds of the exploration *)

MAX_DISPLAYS == 4
VolumeMaximum == 100
PositionMaximum == 1000

MaxOpens == 2       \* media objects one vlc instance creates in a run
MaxScreens == 2     \* physical displays that may be attached
MaxOpensAll == 3    \* media objects created in a run that works all panels
MaxOpensTick == 2   \* the same, in a run that watches the refresh timer

Slots == 1 .. MAX_DISPLAYS

None == <<>>
Some(v) == <<v>>

\* Engine positions are fractions of the duration, kept in units finer than
\* the slider's per-mille steps.
PositionUnit == 10 * PositionMaximum

Filenames == {"a.mp4"}
Volumes == {50, 80}
SliderPositions == {0, 500}
\* positions a playing engine reports between two ticks, in engine units
PlaybackPositions == {1237, 5004}

DefaultFlags == {"Window"}
FramelessFlags == {"Window", "FramelessWindowHint"}
DefaultMargins == <<11, 11, 11, 11>>
InitialRect == [x |-> 100, y |-> 100, w |-> 640, h |-> 480]
WindowRects == {InitialRect, [x |-> 300, y |-> 60, w |-> 800, h |-> 600]}

screenGeometry(i) == [x |-> i * 1920, y |-> 0, w |-> 1920, h |-> 1080]

----------------------------------------------------------------------------
(* Construction *)

PlayerWindow_init ==
    [_media |-> None, _volume |-> 100,
     _wnd_x |-> None, _wnd_y |-> None, _wnd_w |-> None, _wnd_h |-> None,
     _wnd_flags |-> None, _ly_margins |-> None, _is_fullscreen |-> FALSE]

init_vlc ==
    [media |-> None, state |-> "stopped", volume |-> 100, position |-> 0,
     created |-> 0]

PlayerWindow_create_ui ==
    [hidden |-> TRUE, mode |-> "normal", title |-> "",
     x |-> InitialRect.x, y |-> InitialRect.y,
     w |-> InitialRect.w, h |-> InitialRect.h,
     flags |-> DefaultFlags, margins |-> DefaultMargins]

ControlPanel_init(screen_num) ==
    [_screen_num |-> screen_num, _play_pause_button |-> "Play",
     _volume_slider |-> 100, _position_slider |-> 0]

\* An event of the event loop: the handler it ran, the panel, and what the
\* environment supplied (the dialog's filename, the slider's value, the
\* engine's answer to play); before is the window as a fullscreen toggle found it.
Event(op, s, filename, value, ok, before) ==
    [op |-> op, slot |-> s, filename |-> filename, value |-> value, ok |-> ok,
     before |-> before]

NoEvent == Event("none", 0, "", 0, TRUE, None)

Init ==
    /\ player = [s \in Slots |-> PlayerWindow_init]
    /\ panel = [s \in Slots |-> ControlPanel_init(s)]
    /\ vlc = [s \in Slots |-> init_vlc]
    /\ window = [s \in Slots |-> PlayerWindow_create_ui]
    /\ _timer = FALSE
    /\ screen_count \in 1 .. MaxScreens
    /\ calls = <<>>
    /\ last = NoEvent

----------------------------------------------------------------------------
(* The world a handler works on *)

World ==
    [player |-> player, panel |-> panel, vlc |-> vlc, window |-> window,
     _timer |-> _timer, calls |-> <<>>]

Commit(W) ==
    /\ player' = W.player
    /\ panel' = W.panel
    /\ vlc' = W.vlc
    /\ window' = W.window
    /\ _timer' = W._timer
    /\ calls' = W.calls
    /\ UNCHANGED screen_count

Log(W, call, s, arg) ==
    [W EXCEPT !.calls = Append(@, [call |-> call, slot |-> s, arg |-> arg])]

BoolArg(b) == IF b THEN 1 ELSE 0

----------------------------------------------------------------------------
(* The media engine, as the code uses it *)

is_playing(W, s) == W.vlc[s].state = "playing"

pause(W, s) ==
    Log([W EXCEPT !.vlc[s].state = IF @ = "playing" THEN "paused" ELSE @],
        "pause", s, 0)

\* play() answers -1 when the player has no media or the engine cannot start
\* playback (ok = FALSE), and 0 otherwise.
play_result(W, s, ok) == IF W.vlc[s].media # None /\ ok THEN 0 ELSE -1

play(W, s, ok) ==
    Log([W EXCEPT !.vlc[s].state =
                     IF play_result(W, s, ok) = 0 THEN "playing" ELSE @],
        "play", s, play_result(W, s, ok))

stop(W, s) ==
    Log([W EXCEPT !.vlc[s].state = "stopped", !.vlc[s].position = 0],
        "stop", s, 0)

media_new(W, s) ==
    Log([W EXCEPT !.vlc[s].created = @ + 1],
        "media_new", s, W.vlc[s].created + 1)

set_media(W, s, media) ==
    Log([W EXCEPT !.vlc[s].media = media],
        "set_media", s, IF media = None THEN 0 ELSE media[1])

audio_set_volume(W, s, volume) ==
    Log([W EXCEPT !.vlc[s].volume = volume], "audio_set_volume", s, volume)

set_position(W, s, position) ==
    Log([W EXCEPT !.vlc[s].position = position], "set_position", s, position)

----------------------------------------------------------------------------
(* The windowing toolkit, as the code uses it *)

hide(W, s) == Log([W EXCEPT !.window[s].hidden = TRUE], "hide", s, 0)

show(W, s) == Log([W EXCEPT !.window[s].hidden = FALSE], "show", s, 0)

showFullScreen(W, s) ==
    Log([W EXCEPT !.window[s].hidden = FALSE, !.window[s].mode = "fullscreen"],
        "showFullScreen", s, 0)

showNormal(W, s) ==
    Log([W EXCEPT !.window[s].hidden = FALSE, !.window[s].mode = "normal"],
        "showNormal", s, 0)

setWindowFlags(W, s, flags) ==
    Log([W EXCEPT !.window[s].flags = flags], "setWindowFlags", s,
        BoolArg("FramelessWindowHint" \in flags))

setContentsMargins(W, s, left, top, right, bottom) ==
    Log([W EXCEPT !.window[s].margins = <<left, top, right, bottom>>],
        "setContentsMargins", s, left)

move(W, s, x, y) ==
    Log([W EXCEPT !.window[s].x = x, !.window[s].y = y], "move", s, x)

resize(W, s, w, h) ==
    Log([W EXCEPT !.window[s].w = w, !.window[s].h = h], "resize", s, w)

setWindowTitle(W, s, title) == [W EXCEPT !.window[s].title = title]

setText(W, s, text) == [W EXCEPT !.panel[s]._play_pause_button = text]

timer_stop(W) == Log([W EXCEPT !._timer = FALSE], "timer.stop", 0, 0)

timer_start(W) == Log([W EXCEPT !._timer = TRUE], "timer.start", 0, 0)

----------------------------------------------------------------------------
(* PlayerWindow *)

stop_action(W, s) == setText(stop(W, s), s, "Play")

\* release_media that stops and detaches but keeps self._media
release_media_keeps_handle(W, s) ==
    IF W.player[s]._media = None THEN W
    ELSE set_media(stop_action(W, s), s, None)

release_media(W, s) ==
    IF W.player[s]._media = None THEN W
    ELSE LET W1 == stop_action(W, s)
             W2 == set_media(W1, s, None)
         IN  [W2 EXCEPT !.player[s]._media = None]

\* set_volume_action without the "if not self._media: return" guard
set_volume_action_unguarded(W, s, volume) ==
    audio_set_volume([W EXCEPT !.player[s]._volume = volume], s, volume)

set_volume_action(W, s, volume) ==
    LET W1 == [W EXCEPT !.player[s]._volume = volume]
    IN  IF W1.player[s]._media = None THEN W1
        ELSE audio_set_volume(W1, s, W1.player[s]._volume)

\* QSlider.setValue on the volume slider: the value is bounded to the slider's
\* range, and valueChanged (connected to set_volume_action) is emitted only
\* when the value changes.
volume_slider_setValue(W, s, value) ==
    LET bounded == IF value < 0 THEN 0
                   ELSE IF value > VolumeMaximum THEN VolumeMaximum ELSE value
    IN  IF W.panel[s]._volume_slider = bounded THEN W
        ELSE set_volume_action([W EXCEPT !.panel[s]._volume_slider = bounded],
                               s, bounded)

\* QSlider.setValue on the position slider; valueChanged is not connected.
position_slider_setValue(W, s, value) ==
    LET bounded == IF value < 0 THEN 0
                   ELSE IF value > PositionMaximum THEN PositionMaximum ELSE value
    IN  [W EXCEPT !.panel[s]._position_slider = bounded]

\* pos / 1000.0, in engine position units
Fraction(pos) == (pos * PositionUnit) \div 1000

\* set_position_action without the "if not self._media: return" guard
set_position_action_unguarded(W, s) ==
    LET W1 == timer_stop(W)
        W2 == set_position(W1, s, Fraction(W1.panel[s]._position_slider))
    IN  timer_start(W2)

\* set_position_action that seeks while the timer is still running
set_position_action_no_timer_stop(W, s) ==
    IF W.player[s]._media = None THEN W
    ELSE timer_start(set_position(W, s, Fraction(W.panel[s]._position_slider)))

set_position_action(W, s) ==
    IF W.player[s]._media = None THEN W
    ELSE LET W1 == timer_stop(W)
             pos == W1.panel[s]._position_slider
             W2 == set_position(W1, s, Fraction(pos))
         IN  timer_start(W2)

\* open_action without the release_media() call
open_action_no_release(W, s, filename) ==
    IF filename = "" THEN W
    ELSE LET W2 == media_new(W, s)
             W3 == [W2 EXCEPT !.player[s]._media = Some(W2.vlc[s].created)]
             W4 == set_media(W3, s, W3.player[s]._media)
             W5 == volume_slider_setValue(W4, s, W4.player[s]._volume)
             W6 == setWindowTitle(W5, s, filename)
         IN  show(W6, s)

\* open_action that releases the old media before looking at the filename
open_action_release_first(W, s, filename) ==
    LET W1 == release_media(W, s)
    IN  IF filename = "" THEN W1
        ELSE LET W2 == media_new(W1, s)
                 W3 == [W2 EXCEPT !.player[s]._media = Some(W2.vlc[s].created)]
                 W4 == set_media(W3, s, W3.player[s]._media)
                 W5 == volume_slider_setValue(W4, s, W4.player[s]._volume)
                 W6 == setWindowTitle(W5, s, filename)
             IN  show(W6, s)

\* filename is what the file dialog returned: "" when the user cancelled
open_action(W, s, filename) ==
    IF filename = "" THEN W
    ELSE LET W1 == release_media(W, s)
             W2 == media_new(W1, s)
             W3 == [W2 EXCEPT !.player[s]._media = Some(W2.vlc[s].created)]
             W4 == set_media(W3, s, W3.player[s]._media)
             W5 == volume_slider_setValue(W4, s, W4.player[s]._volume)
             W6 == setWindowTitle(W5, s, filename)
         IN  show(W6, s)

\* toggle_fullscreen_action that asks for the geometry of display screen_num
\* without comparing it with screen_count
toggle_fullscreen_action_any_display(W, s) ==
    IF W.player[s]._media = None THEN W
    ELSE LET H == hide(W, s)
         IN  IF ~H.player[s]._is_fullscreen
             THEN LET W1 == [H EXCEPT
                               !.player[s]._wnd_x = Some(H.window[s].x),
                               !.player[s]._wnd_y = Some(H.window[s].y),
                               !.player[s]._wnd_w = Some(H.window[s].w),
                               !.player[s]._wnd_h = Some(H.window[s].h),
                               !.player[s]._wnd_flags = Some(H.window[s].flags),
                               !.player[s]._ly_margins = Some(H.window[s].margins)]
                      screen_num == W1.panel[s]._screen_num
                      screenres == screenGeometry(screen_num)
                      W2 == setWindowFlags(W1, s, FramelessFlags)
                      W3 == setContentsMargins(W2, s, 0, 0, 0, 0)
                      W4 == move(W3, s, screenres.x, screenres.y)
                      W5 == resize(W4, s, screenres.w, screenres.h)
                      W6 == showFullScreen(W5, s)
                  IN  [W6 EXCEPT !.player[s]._is_fullscreen = TRUE]
             ELSE LET W1 == setWindowFlags(H, s, H.player[s]._wnd_flags[1])
                      m == W1.player[s]._ly_margins[1]
                      W2 == setContentsMargins(W1, s, m[1], m[2], m[3], m[4])
                      W3 == move(W2, s, W2.player[s]._wnd_x[1],
                                 W2.player[s]._wnd_y[1])
                      W4 == resize(W3, s, W3.player[s]._wnd_w[1],
                                   W3.player[s]._wnd_h[1])
                      W5 == showNormal(W4, s)
                  IN  [W5 EXCEPT !.player[s]._is_fullscreen = FALSE]

\* toggle_fullscreen_action whose restore branch leaves out self.resize(...)
toggle_fullscreen_action_no_resize(W, s) ==
    IF W.player[s]._media = None THEN W
    ELSE LET H == hide(W, s)
         IN  IF ~H.player[s]._is_fullscreen
             THEN LET W1 == [H EXCEPT
                               !.player[s]._wnd_x = Some(H.window[s].x),
                               !.player[s]._wnd_y = Some(H.window[s].y),
                               !.player[s]._wnd_w = Some(H.window[s].w),
                               !.player[s]._wnd_h = Some(H.window[s].h),
                               !.player[s]._wnd_flags = Some(H.window[s].flags),
                               !.player[s]._ly_margins = Some(H.window[s].margins)]
                      screen_num == W1.panel[s]._screen_num
                      screenres == screenGeometry(
                          IF screen_num < screen_count THEN screen_num ELSE 0)
                      W2 == setWindowFlags(W1, s, FramelessFlags)
                      W3 == setContentsMargins(W2, s, 0, 0, 0, 0)
                      W4 == move(W3, s, screenres.x, screenres.y)
                      W5 == resize(W4, s, screenres.w, screenres.h)
                      W6 == showFullScreen(W5, s)
                  IN  [W6 EXCEPT !.player[s]._is_fullscreen = TRUE]
             ELSE LET W1 == setWindowFlags(H, s, H.player[s]._wnd_flags[1])
                      m == W1.player[s]._ly_margins[1]
                      W2 == setContentsMargins(W1, s, m[1], m[2], m[3], m[4])
                      W3 == move(W2, s, W2.player[s]._wnd_x[1],
                                 W2.player[s]._wnd_y[1])
                      W5 == showNormal(W3, s)
                  IN  [W5 EXCEPT !.player[s]._is_fullscreen = FALSE]

toggle_fullscreen_action(W, s) ==
    IF W.player[s]._media = None THEN W
    ELSE LET H == hide(W, s)
         IN  IF ~H.player[s]._is_fullscreen
             THEN LET W1 == [H EXCEPT
                               !.player[s]._wnd_x = Some(H.window[s].x),
                               !.player[s]._wnd_y = Some(H.window[s].y),
                               !.player[s]._wnd_w = Some(H.window[s].w),
                               !.player[s]._wnd_h = Some(H.window[s].h),
                               !.player[s]._wnd_flags = Some(H.window[s].flags),
                               !.player[s]._ly_margins = Some(H.window[s].margins)]
                      screen_num == W1.panel[s]._screen_num
                      screenres == screenGeometry(
                          IF screen_num < screen_count THEN screen_num ELSE 0)
                      W2 == setWindowFlags(W1, s, FramelessFlags)
                      W3 == setContentsMargins(W2, s, 0, 0, 0, 0)
                      W4 == move(W3, s, screenres.x, screenres.y)
                      W5 == resize(W4, s, screenres.w, screenres.h)
                      W6 == showFullScreen(W5, s)
                  IN  [W6 EXCEPT !.player[s]._is_fullscreen = TRUE]
             ELSE LET W1 == setWindowFlags(H, s, H.player[s]._wnd_flags[1])
                      m == W1.player[s]._ly_margins[1]
                      W2 == setContentsMargins(W1, s, m[1], m[2], m[3], m[4])
                      W3 == move(W2, s, W2.player[s]._wnd_x[1],
                                 W2.player[s]._wnd_y[1])
                      W4 == resize(W3, s, W3.player[s]._wnd_w[1],
                                   W3.player[s]._wnd_h[1])
                      W5 == showNormal(W4, s)
                  IN  [W5 EXCEPT !.player[s]._is_fullscreen = FALSE]

\* close_action that hides and releases without leaving fullscreen first
close_action_no_restore(W, s) ==
    IF W.player[s]._media = None THEN W
    ELSE release_media(hide(W, s), s)

close_action(W, s) ==
    IF W.player[s]._media = None THEN W
    ELSE LET W1 == IF W.player[s]._is_fullscreen
                   THEN toggle_fullscreen_action(W, s) ELSE W
             W2 == hide(W1, s)
         IN  release_media(W2, s)

\* play_pause_action that leaves out "if self.isHidden(): self.show()"
play_pause_action_no_show(W, s, ok) ==
    IF is_playing(W, s)
    THEN setText(pause(W, s), s, "Play")
    ELSE LET W1 == play(W, s, ok)
         IN  IF play_result(W, s, ok) = -1 THEN W1
             ELSE timer_start(setText(W1, s, "Pause"))

\* play_pause_action that shows the window before it looks at play()'s answer
play_pause_action_show_first(W, s, ok) ==
    IF is_playing(W, s)
    THEN setText(pause(W, s), s, "Play")
    ELSE LET W0 == IF W.window[s].hidden THEN show(W, s) ELSE W
             W1 == play(W0, s, ok)
         IN  IF play_result(W, s, ok) = -1 THEN W1
             ELSE timer_start(setText(W1, s, "Pause"))

\* ok is the engine's answer to this call's play() when the player has media
play_pause_action(W, s, ok) ==
    IF is_playing(W, s)
    THEN setText(pause(W, s), s, "Play")
    ELSE LET W1 == play(W, s, ok)
         IN  IF play_result(W, s, ok) = -1 THEN W1
             ELSE LET W2 == IF W1.window[s].hidden THEN show(W1, s) ELSE W1
                      W3 == setText(W2, s, "Pause")
                  IN  timer_start(W3)

----------------------------------------------------------------------------
(* ControlPanel and MainWindow *)

\* round(position * 1000): the nearest per-mille value, ties to the even one
NearestPerMille(position) ==
    LET q == (position * 1000) \div PositionUnit
        r == (position * 1000) % PositionUnit
    IN  IF 2 * r > PositionUnit THEN q + 1
        ELSE IF 2 * r < PositionUnit THEN q
        ELSE IF q % 2 = 0 THEN q ELSE q + 1

\* int(get_position() * 1000), with the position in engine units
PerMille(position) == (position * 1000) \div PositionUnit

ControlPanel_update_ui(W, s) ==
    LET has == W.player[s]._media # None
        pos == IF has THEN PerMille(W.vlc[s].position) ELSE 0
        text == IF has THEN (IF is_playing(W, s) THEN "Pause" ELSE "Play")
                ELSE "Play"
    IN  setText(Log(position_slider_setValue(W, s, pos), "setValue", s, pos),
                s, text)

RECURSIVE update_ui_loop(_, _)
update_ui_loop(W, i) ==
    IF i > MAX_DISPLAYS THEN W
    ELSE update_ui_loop(ControlPanel_update_ui(W, i), i + 1)

MainWindow_update_ui(W) == update_ui_loop(W, 1)

\* the play/pause-all loop leaving at the first panel whose play() fails
RECURSIVE play_pause_all_loop_until_failure(_, _, _)
play_pause_all_loop_until_failure(W, i, res) ==
    IF i > MAX_DISPLAYS THEN W
    ELSE IF ~is_playing(W, i) /\ play_result(W, i, res[i]) = -1
         THEN play_pause_action(W, i, res[i])
         ELSE play_pause_all_loop_until_failure(
                  play_pause_action(W, i, res[i]), i + 1, res)

\* res[i] is the engine's answer to play() on panel i, should it be asked
RECURSIVE play_pause_all_loop(_, _, _)
play_pause_all_loop(W, i, res) ==
    IF i > MAX_DISPLAYS THEN W
    ELSE play_pause_all_loop(play_pause_action(W, i, res[i]), i + 1, res)

play_pause_all_action(W, res) == play_pause_all_loop(W, 1, res)

RECURSIVE stop_all_loop(_, _)
stop_all_loop(W, i) ==
    IF i > MAX_DISPLAYS THEN W
    ELSE stop_all_loop(stop_action(W, i), i + 1)

stop_all_action(W) == stop_all_loop(W, 1)

----------------------------------------------------------------------------
(* Events delivered by the event loop, one handler at a time *)

OpenClicked(s) ==
    \E filename \in Filenames \cup {""} :
        /\ vlc[s].created < MaxOpens
        /\ Commit(open_action(World, s, filename))
        /\ last' = Event("open_action", s, filename, 0, TRUE, None)

CloseClicked(s) ==
    /\ Commit(close_action(World, s))
    /\ last' = Event("close_action", s, "", 0, TRUE, None)

PlayPauseClicked(s) ==
    \E ok \in BOOLEAN :
        /\ is_playing(World, s) => ok      \* play() is not called: no answer
        /\ Commit(play_pause_action(World, s, ok))
        /\ last' = Event("play_pause_action", s, "", 0, ok, None)

StopClicked(s) ==
    /\ Commit(stop_action(World, s))
    /\ last' = Event("stop_action", s, "", 0, TRUE, None)

\* the user drags the volume slider to another value
VolumeSliderChanged(s) ==
    \E volume \in Volumes :
        /\ volume # panel[s]._volume_slider
        /\ Commit(volume_slider_setValue(World, s, volume))
        /\ last' = Event("set_volume_action", s, "", volume, TRUE, None)

\* the user presses the position slider or drags it; the handler reads the
\* slider's value
PositionSliderMoved(s) ==
    \E pos \in SliderPositions :
        /\ Commit(set_position_action(
               position_slider_setValue(World, s, pos), s))
        /\ last' = Event("set_position_action", s, "", pos, TRUE, None)

FullscreenClicked(s) ==
    /\ Commit(toggle_fullscreen_action(World, s))
    /\ last' = Event("toggle_fullscreen_action", s, "", 0, TRUE,
                     Some(window[s]))

PlayPauseAllClicked ==
    \E res \in [Slots -> BOOLEAN] :
        /\ \A i \in Slots : is_playing(World, i) => res[i]
        /\ Commit(play_pause_all_action(World, res))
        /\ last' = Event("play_pause_all_action", 0, "", 0,
                         \A i \in Slots : res[i], None)

StopAllClicked ==
    /\ Commit(stop_all_action(World))
    /\ last' = Event("stop_all_action", 0, "", 0, TRUE, None)

TimerTimeout ==
    /\ _timer
    /\ Commit(MainWindow_update_ui(World))
    /\ last' = Event("update_ui", 0, "", 0, TRUE, None)

\* the engine plays on: the position it reports moves
PlaybackAdvances(s) ==
    \E position \in PlaybackPositions :
        /\ vlc[s].state = "playing"
        /\ position # vlc[s].position
        /\ Commit([World EXCEPT !.vlc[s].position = position])
        /\ last' = Event("playback", s, "", position, TRUE, None)

\* the user closes a player window from its title bar: Qt hides the widget
WindowClosed(s) ==
    /\ ~window[s].hidden
    /\ Commit([World EXCEPT !.window[s].hidden = TRUE])
    /\ last' = Event("window_closed", s, "", 0, TRUE, None)

\* the user moves or resizes a visible, windowed player window
WindowMoved(s) ==
    \E r \in WindowRects :
        /\ ~window[s].hidden
        /\ window[s].mode = "normal"
        /\ <<window[s].x, window[s].y, window[s].w, window[s].h>>
               # <<r.x, r.y, r.w, r.h>>
        /\ Commit([World EXCEPT !.window[s].x = r.x, !.window[s].y = r.y,
                                !.window[s].w = r.w, !.window[s].h = r.h])
        /\ last' = Event("window_moved", s, "", 0, TRUE, None)

----------------------------------------------------------------------------
(* Spec: one panel worked in depth. Panels share nothing but the timer, so *)
(* the user is taken to work a single panel of the four during a run.      *)

Untouched(t) ==
    /\ player[t] = PlayerWindow_init
    /\ vlc[t] = init_vlc
    /\ window[t] = PlayerWindow_create_ui
    /\ panel[t] = ControlPanel_init(t)

Focused(s) == \A t \in Slots \ {s} : Untouched(t)

Next ==
    \/ \E s \in Slots : Focused(s) /\ OpenClicked(s)
    \/ \E s \in Slots : Focused(s) /\ CloseClicked(s)
    \/ \E s \in Slots : Focused(s) /\ PlayPauseClicked(s)
    \/ \E s \in Slots : Focused(s) /\ StopClicked(s)
    \/ \E s \in Slots : Focused(s) /\ VolumeSliderChanged(s)
    \/ \E s \in Slots : Focused(s) /\ PositionSliderMoved(s)
    \/ \E s \in Slots : Focused(s) /\ FullscreenClicked(s)
    \/ \E s \in Slots : Focused(s) /\ WindowClosed(s)
    \/ \E s \in Slots : Focused(s) /\ WindowMoved(s)
    \/ TimerTimeout

Spec == Init /\ [][Next]_vars

----------------------------------------------------------------------------
(* Vocabulary of the properties *)

\* the step is the delivery of event op to panel s
Step(op, s) == last'.op = op /\ last'.slot = s

\* event op on panel s is the last thing that happened
Acted(op, s) == last.op = op /\ last.slot = s

Geometry(wnd) == <<wnd.x, wnd.y, wnd.w, wnd.h, wnd.flags, wnd.margins>>

SavedGeometry(p) ==
    <<p._wnd_x[1], p._wnd_y[1], p._wnd_w[1], p._wnd_h[1], p._wnd_flags[1],
      p._ly_margins[1]>>

CallNames(cs) == [i \in 1 .. Len(cs) |-> cs[i].call]

HasCall(cs, call) == \E i \in 1 .. Len(cs) : cs[i].call = call

UnchangedProgram == UNCHANGED <<player, panel, vlc, window, _timer>>

----------------------------------------------------------------------------
\* C1: an open with a non-empty path leaves a media handle on the slot, one
\* that no earlier open of the slot produced, and bound to the native player;
\* a close leaves none; and no other event makes a handle appear or
\* disappear, so a slot has a handle exactly when a file was opened on it and
\* not closed since.
C1_HandleLifecycle ==
    [][\A s \in Slots :
          /\ (Step("open_action", s) /\ last'.filename # "")
                => /\ player'[s]._media # None
                   /\ player'[s]._media[1] \notin 1 .. vlc[s].created
                   /\ vlc'[s].media = player'[s]._media
          /\ Step("close_action", s) => player'[s]._media = None
          /\ ~(Step("open_action", s) /\ last'.filename # "")
                /\ ~Step("close_action", s)
                => player'[s]._media = player[s]._media
      ]_vars

\* a file is opened again on a slot whose first file was closed
C1_Witness ==
    \E s \in Slots :
        /\ Acted("open_action", s)
        /\ last.filename # ""
        /\ CallNames(calls) = <<"media_new", "set_media", "show">>
        /\ player[s]._media = Some(2)

\* C2: right after an open with a non-empty path the native player's volume
\* is the slot's cached volume.
C2_VolumeAppliedOnOpen ==
    \A s \in Slots :
        (Acted("open_action", s) /\ last.filename # "")
            => vlc[s].volume = player[s]._volume

\* C3: set_volume_action(v) caches v; with a handle the native volume is v
\* afterwards, without one the native volume is what it was.
C3_SetVolume ==
    [][\A s \in Slots :
          Step("set_volume_action", s)
              => /\ player'[s]._volume = last'.value
                 /\ IF player[s]._media # None
                    THEN vlc'[s].volume = last'.value
                    ELSE vlc'[s].volume = vlc[s].volume
      ]_vars

\* the volume is set on a slot without a handle whose native player was
\* last given another volume
C3_Witness ==
    \E s \in Slots :
        /\ Acted("set_volume_action", s)
        /\ player[s]._media = None
        /\ player[s]._volume = 80
        /\ vlc[s].volume = 50

\* C4: a fullscreen toggle that directly follows the toggle that entered
\* fullscreen puts position, size, window flags and margins back to what they
\* were before the first of the two, clears the fullscreen flag and shows
\* the window.
C4_ToggleTwiceRestores ==
    [][\A s \in Slots :
          (/\ Acted("toggle_fullscreen_action", s)
           /\ player[s]._media # None
           /\ player[s]._is_fullscreen
           /\ Step("toggle_fullscreen_action", s))
              => /\ Geometry(window'[s]) = Geometry(last.before[1])
                 /\ ~player'[s]._is_fullscreen
                 /\ ~window'[s].hidden
                 /\ window'[s].mode = "normal"
      ]_vars

\* two toggles in a row have brought a moved window back from the second
\* display
C4_Witness ==
    \E s \in Slots :
        /\ Acted("toggle_fullscreen_action", s)
        /\ ~player[s]._is_fullscreen
        /\ last.before # None
        /\ last.before[1].mode = "fullscreen"
        /\ last.before[1].x = screenGeometry(1).x
        /\ window[s].w = 800
        /\ window[s].margins = DefaultMargins

\* C5: play_pause_action on a player that is not playing, with play()
\* answering -1, changes nothing.
C5_PlayFailedChangesNothing ==
    [][\A s \in Slots :
          (/\ Step("play_pause_action", s)
           /\ ~is_playing(World, s)
           /\ play_result(World, s, last'.ok) = -1)
              => /\ UnchangedProgram
                 /\ ~HasCall(calls', "timer.start")
                 /\ ~HasCall(calls', "show")
      ]_vars

\* play failed on a slot with media whose window the user had closed, with
\* the timer not running
C5_Witness ==
    \E s \in Slots :
        /\ Acted("play_pause_action", s)
        /\ ~last.ok
        /\ player[s]._media # None
        /\ CallNames(calls) = <<"play">>
        /\ window[s].hidden
        /\ ~_timer

\* C7: on a slot without a handle, close, play/pause, stop, set position and
\* toggle fullscreen change nothing of the slot, the label is "Play", and
\* the timer keeps its state.
C7_NoHandleNoOp ==
    [][\A s \in Slots :
          (/\ player[s]._media = None
           /\ \/ Step("close_action", s)
              \/ Step("play_pause_action", s)
              \/ Step("stop_action", s)
              \/ Step("set_position_action", s)
              \/ Step("toggle_fullscreen_action", s))
              => /\ player'[s] = player[s]
                 /\ panel'[s]._play_pause_button = "Play"
                 /\ panel'[s]._play_pause_button = panel[s]._play_pause_button
                 /\ window'[s] = window[s]
                 /\ vlc'[s] = vlc[s]
                 /\ _timer' = _timer
      ]_vars

\* play/pause was pressed, the engine being willing, on a slot whose file
\* was closed while the timer runs
C7_Witness ==
    \E s \in Slots :
        /\ Acted("play_pause_action", s)
        /\ last.ok
        /\ player[s]._media = None
        /\ vlc[s].created > 0
        /\ _timer

\* C8: an open whose file dialog was cancelled changes nothing.
C8_CancelledOpenChangesNothing ==
    [][\A s \in Slots :
          (Step("open_action", s) /\ last'.filename = "") => UnchangedProgram
      ]_vars

\* the dialog was cancelled on a slot that is playing fullscreen
C8_Witness ==
    \E s \in Slots :
        /\ Acted("open_action", s)
        /\ last.filename = ""
        /\ player[s]._media # None
        /\ player[s]._is_fullscreen
        /\ is_playing(World, s)

\* C9: set_position_action on a slot with a handle stops the timer, seeks to
\* value / 1000 and starts the timer, in this order and nothing else, and
\* leaves the timer running.
C9_SeekBetweenTimerStopAndStart ==
    \A s \in Slots :
        (Acted("set_position_action", s) /\ player[s]._media # None)
            => /\ CallNames(calls) = <<"timer.stop", "set_position", "timer.start">>
               /\ calls[2].slot = s
               /\ calls[2].arg * 1000 = last.value * PositionUnit
               /\ vlc[s].position = calls[2].arg
               /\ _timer

\* a seek to slider value 500 reaches the engine as one half
C9_Witness ==
    \E s \in Slots :
        /\ Acted("set_position_action", s)
        /\ player[s]._media # None
        /\ last.value = 500
        /\ 2 * vlc[s].position = PositionUnit
        /\ vlc[s].state = "stopped"

\* C10: after close the slot is windowed, hidden, stopped, detached and
\* without a handle; a close of a fullscreen slot first restores the saved
\* flags, margins, position and size and shows the window normal, then hides
\* it and releases the media.
C10_CloseLeavesFullscreenFirst ==
    [][\A s \in Slots :
          Step("close_action", s)
              => /\ ~player'[s]._is_fullscreen
                 /\ window'[s].hidden
                 /\ vlc'[s].state = "stopped"
                 /\ vlc'[s].media = None
                 /\ player'[s]._media = None
                 /\ (player[s]._media # None /\ player[s]._is_fullscreen)
                       => /\ CallNames(calls') =
                                <<"hide", "setWindowFlags", "setContentsMargins",
                                  "move", "resize", "showNormal", "hide", "stop",
                                  "set_media">>
                          /\ Geometry(window'[s]) = SavedGeometry(player[s])
                          /\ window'[s].mode = "normal"
      ]_vars

\* a fullscreen slot that was playing has been closed
C10_Witness ==
    \E s \in Slots :
        /\ Acted("close_action", s)
        /\ HasCall(calls, "showNormal")
        /\ window[s].hidden
        /\ window[s].flags = DefaultFlags
        /\ player[s]._wnd_x # None

----------------------------------------------------------------------------
(* SpecAll: the four panels worked together, with the aggregate buttons.   *)
(* The per-panel events are those that decide what play/pause and stop do: *)
(* open, close and play/pause.                                             *)

RECURSIVE CreatedUpTo(_)
CreatedUpTo(i) == IF i = 0 THEN 0 ELSE vlc[i].created + CreatedUpTo(i - 1)

NextAll ==
    \/ \E s \in Slots : CreatedUpTo(MAX_DISPLAYS) < MaxOpensAll /\ OpenClicked(s)
    \/ \E s \in Slots : CloseClicked(s)
    \/ \E s \in Slots : PlayPauseClicked(s)
    \/ PlayPauseAllClicked
    \/ StopAllClicked

InitAll == Init /\ screen_count = 1

SpecAll == InitAll /\ [][NextAll]_vars

SlotOf(W, s) == <<W.player[s], W.panel[s], W.vlc[s], W.window[s]>>

IsTransportCall(c) == c.call \in {"play", "pause", "stop"}

\* the engine's answers to the play() calls of the handler, per panel
PlayAnswers(cs) ==
    [s \in Slots |->
        \E i \in 1 .. Len(cs) :
            cs[i].call = "play" /\ cs[i].slot = s /\ cs[i].arg = 0]

\* the panels whose transport the handler drove, in the order it did
TransportSlots(cs) ==
    LET sel == SelectSeq(cs, IsTransportCall)
    IN  [i \in 1 .. Len(sel) |-> sel[i].slot]

\* C6: play/pause-all and stop-all drive the transport of panels 1, 2, 3, 4
\* in this order, each once; every panel ends as its own play/pause (given
\* the same answer of the engine) or stop would have left it from the state
\* before the click; panels with media toggle or stop, panels without are unchanged.
C6_AggregateActions ==
    [][/\ Step("play_pause_all_action", 0)
          => /\ TransportSlots(calls') = <<1, 2, 3, 4>>
             /\ LET res == PlayAnswers(calls')
                IN  /\ \A s \in Slots :
                          SlotOf(World', s)
                              = SlotOf(play_pause_action(World, s, res[s]), s)
                    /\ _timer' = (_timer \/ \E s \in Slots :
                                     play_pause_action(World, s, res[s])._timer)
             /\ \A s \in Slots :
                   IF player[s]._media = None
                   THEN SlotOf(World', s) = SlotOf(World, s)
                   ELSE /\ player'[s] = player[s]
                        /\ IF is_playing(World, s)
                           THEN vlc'[s].state = "paused"
                           ELSE vlc'[s].state \in {"playing", vlc[s].state}
       /\ Step("stop_all_action", 0)
          => /\ TransportSlots(calls') = <<1, 2, 3, 4>>
             /\ _timer' = _timer
             /\ \A s \in Slots :
                   /\ SlotOf(World', s) = SlotOf(stop_action(World, s), s)
                   /\ vlc'[s].state = "stopped"
                   /\ player[s]._media = None
                         => SlotOf(World', s) = SlotOf(World, s)
      ]_vars

\* play/pause-all found panel 1 unable to play, panel 2 playing, panel 3
\* without media and panel 4 stopped: 2 is paused and 4 plays
C6_Witness ==
    /\ Acted("play_pause_all_action", 0)
    /\ player[1]._media # None
    /\ calls[1].call = "play" /\ calls[1].slot = 1 /\ calls[1].arg = -1
    /\ vlc[2].state = "paused"
    /\ player[3]._media = None
    /\ vlc[4].state = "playing"
    /\ panel[4]._play_pause_button = "Pause"

----------------------------------------------------------------------------
\* C11: an open on a slot that has a handle stops the transport, detaches
\* the old media and drops the handle before the new media is created and
\* bound, without hiding the window; the fullscreen flag, the saved geometry
\* and the window's geometry are untouched, and afterwards the window is
\* shown, the label is "Play" and the new handle is not playing.
C11_OpenReleasesOldHandleFirst ==
    [][\A s \in Slots :
          (/\ Step("open_action", s)
           /\ last'.filename # ""
           /\ player[s]._media # None)
              => /\ CallNames(calls') =
                       <<"stop", "set_media", "media_new", "set_media", "show">>
                 /\ calls'[2].arg = 0
                 /\ calls'[3].arg # player[s]._media[1]
                 /\ calls'[4].arg = calls'[3].arg
                 /\ player'[s] =
                       [player[s] EXCEPT !._media = Some(calls'[3].arg)]
                 /\ vlc'[s].media = player'[s]._media
                 /\ vlc'[s].state = "stopped"
                 /\ panel'[s]._play_pause_button = "Play"
                 /\ window'[s] =
                       [window[s] EXCEPT !.hidden = FALSE,
                                         !.title = last'.filename]
      ]_vars

\* a second file was opened over the first on a fullscreen slot
C11_Witness ==
    \E s \in Slots :
        /\ Acted("open_action", s)
        /\ last.filename # ""
        /\ CallNames(calls) =
              <<"stop", "set_media", "media_new", "set_media", "show">>
        /\ player[s]._media = Some(2)
        /\ player[s]._is_fullscreen
        /\ ~window[s].hidden

----------------------------------------------------------------------------
(* SpecTick: the panels under the refresh timer, with engines that play on *)
(* between ticks. The user works the panels on which a file was opened.    *)

NextTick ==
    \/ \E s \in Slots : CreatedUpTo(MAX_DISPLAYS) < MaxOpensTick /\ OpenClicked(s)
    \/ \E s \in Slots : vlc[s].created > 0 /\ CloseClicked(s)
    \/ \E s \in Slots : vlc[s].created > 0 /\ PlayPauseClicked(s)
    \/ \E s \in Slots : vlc[s].created > 0 /\ PositionSliderMoved(s)
    \/ \E s \in Slots : PlaybackAdvances(s)
    \/ TimerTimeout

SpecTick == InitAll /\ [][NextTick]_vars


\* the label a tick gives panel s
TickLabelOk(s) ==
    panel[s]._play_pause_button =
        IF player[s]._media # None /\ is_playing(World, s) THEN "Pause" ELSE "Play"

\* the tick set every panel's slider once, panels 1, 2, 3, 4 in this order
TickOrderOk ==
    /\ Len(calls) = MAX_DISPLAYS
    /\ \A i \in 1 .. Len(calls) :
          /\ calls[i].call = "setValue"
          /\ calls[i].slot = i
          /\ calls[i].arg = panel[i]._position_slider

\* C12 as stated: after a tick every panel was refreshed once, in slot
\* order; a panel without a handle shows position 0 and "Play"; a panel with
\* a handle shows round(native position * 1000) and "Pause" when the player
\* is playing, else "Play".
C12_TickShowsRounded ==
    Acted("update_ui", 0)
        => /\ TickOrderOk
           /\ \A s \in Slots :
                 /\ TickLabelOk(s)
                 /\ panel[s]._position_slider =
                       IF player[s]._media = None THEN 0
                       ELSE NearestPerMille(vlc[s].position)

\* C12 amended: as above, but a panel with a handle shows the native
\* position times 1000 cut down to a whole number, not rounded to the nearest.
C12_TickShowsTruncated ==
    Acted("update_ui", 0)
        => /\ TickOrderOk
           /\ \A s \in Slots :
                 /\ TickLabelOk(s)
                 /\ IF player[s]._media = None
                    THEN panel[s]._position_slider = 0
                    ELSE LET v == panel[s]._position_slider
                         IN  /\ v * PositionUnit <= vlc[s].position * 1000
                             /\ vlc[s].position * 1000 < (v + 1) * PositionUnit

\* a tick found one panel playing at 0.1237, where cutting and rounding
\* differ, and another whose file was closed
C12_Witness ==
    /\ Acted("update_ui", 0)
    /\ \E s, u \in Slots :
          /\ player[s]._media # None
          /\ vlc[s].position = 1237
          /\ panel[s]._position_slider = 123
          /\ panel[s]._play_pause_button = "Pause"
          /\ player[u]._media = None
          /\ vlc[u].created > 0
          /\ panel[u]._position_slider = 0

----------------------------------------------------------------------------
\* C13: on a slot with a handle, play/pause pauses a playing player and
\* sets the label "Play", leaving the window and the timer alone; on a
\* player that is not playing and accepts play, it leaves the player
\* playing, the window visible, the label "Pause" and the timer running.
\* Stop stops the transport and sets the label "Play", leaving the window,
\* the handle, the fullscreen flag and the timer alone.
C13_PlayPauseAndStop ==
    [][\A s \in Slots :
          player[s]._media # None
              => /\ Step("play_pause_action", s)
                    => IF is_playing(World, s)
                       THEN /\ vlc'[s].state = "paused"
                            /\ panel'[s]._play_pause_button = "Play"
                            /\ window'[s] = window[s]
                            /\ _timer' = _timer
                            /\ player'[s] = player[s]
                       ELSE last'.ok
                            => /\ vlc'[s].state = "playing"
                               /\ ~window'[s].hidden
                               /\ panel'[s]._play_pause_button = "Pause"
                               /\ _timer'
                               /\ player'[s] = player[s]
                 /\ Step("stop_action", s)
                    => /\ vlc'[s].state = "stopped"
                       /\ panel'[s]._play_pause_button = "Play"
                       /\ window'[s] = window[s]
                       /\ player'[s] = player[s]
                       /\ _timer' = _timer
      ]_vars

\* play was accepted on a slot whose window the user had closed: the
\* handler showed it again
C13_Witness ==
    \E s \in Slots :
        /\ Acted("play_pause_action", s)
        /\ last.ok
        /\ CallNames(calls) = <<"play", "show", "timer.start">>
        /\ player[s]._media # None
        /\ player[s]._is_fullscreen
        /\ panel[s]._play_pause_button = "Pause"

----------------------------------------------------------------------------
\* C14: under every interleaving of the handlers and the timer, a player
\* whose fullscreen flag is set has all six saved-geometry fields filled in
\* and has a media handle, so leaving fullscreen never reads a field that
\* was not written; the saved fields change only in the toggle that enters
\* fullscreen, which stores the window's position, size, flags and margins
\* as it found them; and that toggle leaves the window on the rectangle of
\* display _screen_num when _screen_num < screen_count, else of display 0.
SavedFields(p) ==
    <<p._wnd_x, p._wnd_y, p._wnd_w, p._wnd_h, p._wnd_flags, p._ly_margins>>

EntersFullscreen(s) ==
    /\ Step("toggle_fullscreen_action", s)
    /\ player[s]._media # None
    /\ ~player[s]._is_fullscreen

TargetDisplay(s) ==
    IF panel[s]._screen_num < screen_count THEN panel[s]._screen_num ELSE 0

C14_SavedGeometry ==
    /\ [](\A s \in Slots :
              player[s]._is_fullscreen
                  => /\ \A i \in 1 .. 6 : SavedFields(player[s])[i] # None
                     /\ player[s]._media # None)
    /\ [][\A s \in Slots :
              /\ SavedFields(player'[s]) # SavedFields(player[s])
                     => EntersFullscreen(s)
              /\ EntersFullscreen(s)
                     => /\ player'[s]._is_fullscreen
                        /\ SavedGeometry(player'[s]) = Geometry(window[s])
                        /\ <<window'[s].x, window'[s].y,
                             window'[s].w, window'[s].h>>
                               = <<screenGeometry(TargetDisplay(s)).x,
                                   screenGeometry(TargetDisplay(s)).y,
                                   screenGeometry(TargetDisplay(s)).w,
                                   screenGeometry(TargetDisplay(s)).h>>
                        /\ window'[s].mode = "fullscreen"
      ]_vars

\* a panel whose number is not below the display count went fullscreen on
\* display 0 from a window the user had moved, on a desktop with a second
\* display
C14_Witness ==
    \E s \in Slots :
        /\ Acted("toggle_fullscreen_action", s)
        /\ player[s]._is_fullscreen
        /\ panel[s]._screen_num >= screen_count
        /\ screen_count > 1
        /\ window[s].x = screenGeometry(0).x
        /\ window[s].mode = "fullscreen"
        /\ player[s]._wnd_w = Some(800)

====
